---- MODULE Spec2Model ----
(***************************************************************************)
(* The trading Engine of src/src/engine/mod.rs: the EngineBuilder, the     *)
(* eight-variant Engine enum, Engine::next (one transition) and            *)
(* Engine::run (the loop over next).                                       *)
(*                                                                         *)
(* The bodies of the Trader transitions (init, next_event, update,         *)
(* execute_manual_command) live in the state:: submodules, outside         *)
(* engine/mod.rs; they are modelled from the written specification         *)
(* (sections 4.2-4.7 and 7).                                               *)
(***************************************************************************)
EXTENDS Integers, Sequences, FiniteSets, TLC

\* ---------------------------------------------------------------- bounds
MaxFeedLen == 2
MaxIntents == 2
MaxTermCalls == 2

\* ------------------------------------------------------------ input sets
\* What a MarketEvent does to the Portfolio capability: a decision-relevant
\* signal, a plain update, or a malformed event the capability rejects.
MarketEvents == {"Signal", "Quiet", "Malformed"}
AccountEvents == {"Fill"}
\* event::Command: a manual order request, a request whose effect emits
\* ExecutionRequests itself (position-close; cancel-order is handled alike),
\* and the shutdown request.
Commands == {"ManualOrder", "ClosePosition", "Shutdown"}

FeedItems ==
    [tag : {"Market"}, body : MarketEvents]
        \cup [tag : {"Account"}, body : AccountEvents]
        \cup [tag : {"Command"}, body : Commands]

SeqsUpTo(S, n) == UNION {[1..k -> S] : k \in 0..n}

\* An EventFeed: everything it will yield before it closes, and how many of
\* these items have been pulled from it.
EventFeeds == [items : SeqsUpTo(FeedItems, MaxFeedLen), taken : {0}]
Strategies == {"strategy_a", "strategy_b"}
ExecutionTxs == {"tx_a", "tx_b"}
\* HashMap<Exchange, Vec<Instrument>>: one well-formed universe and one that
\* lists an instrument twice.
Universes ==
    { [A |-> <<"X", "Y">>, B |-> <<"Z">>],
      [A |-> <<"X", "X">>] }

\* ------------------------------------------------------------ Option<T>
None == [some |-> FALSE]
Some(v) == [some |-> TRUE, value |-> v]

\* ------------------------------------------------------------ the state
VARIABLES
    builder,      \* the EngineBuilder (kept after build as the record of what it was given)
    built,        \* what build() returned: "pending", "Ok", or the BuilderIncomplete field
    engine,       \* the Engine value
    arrived,      \* the feed has an item (or its closure) ready for next_event
    sentLog,      \* the ExecutionRequests placed on the execution channel, in order
    rxDropped,    \* the consumer of the execution channel has been dropped
    pc,           \* where the caller is: builder, idle, run_next, run_check, returned, panicked, build_err
    termCalls,    \* the number of next() calls made on a Terminate-phase Engine
    held          \* the Portfolio the Trader held last (history, read by no transition)

vars == <<builder, built, engine, arrived, sentLog, rxDropped, pc, termCalls, held>>

\* ------------------------------------------------------- Trader, Engine
Trader(f, s, tx, st) == [feed |-> f, strategy |-> s, execution_tx |-> tx, state |-> st]

InitialiseState(u) == [instruments |-> u]
PortfolioState(p) == [portfolio |-> p]
GenerateOrderState(origin) == [origin |-> origin]
TerminateState == [terminal |-> TRUE]

Initialise(trader) == [tag |-> "Initialise", trader |-> trader]
Consume(trader) == [tag |-> "Consume", trader |-> trader]
UpdateFromMarket(trader, market) == [tag |-> "UpdateFromMarket", trader |-> trader, event |-> market]
GenerateOrder(trader) == [tag |-> "GenerateOrder", trader |-> trader]
GenerateOrderManual(trader, meta) == [tag |-> "GenerateOrderManual", trader |-> trader, event |-> meta]
UpdateFromAccount(trader, account) == [tag |-> "UpdateFromAccount", trader |-> trader, event |-> account]
ExecuteCommand(trader, command) == [tag |-> "ExecuteCommand", trader |-> trader, event |-> command]
Terminate(trader) == [tag |-> "Terminate", trader |-> trader]

\* No Engine value: before build, after a failed build.
NoEngine == [tag |-> "NoEngine"]
\* todo!() panics: next() never returns and the Engine it was given is dropped
\* by the unwinding.
todo == [tag |-> "Panicked"]

\* As WithState, but the new Trader is assembled with a default strategy.
WithStateDefaultStrategy(trader, st) ==
    [feed |-> trader.feed, strategy |-> "strategy_a",
     execution_tx |-> trader.execution_tx, state |-> st]

WithState(trader, st) == [trader EXCEPT !.state = st]

\* --------------------------------------------------------- EngineBuilder
new == [feed |-> None, strategy |-> None, execution_tx |-> None, instruments |-> None]

feed(value) ==
    /\ pc = "builder"
    /\ builder' = [builder EXCEPT !.feed = Some(value)]
    /\ UNCHANGED <<built, engine, arrived, sentLog, rxDropped, pc, termCalls, held>>

strategy(value) ==
    /\ pc = "builder"
    /\ builder' = [builder EXCEPT !.strategy = Some(value)]
    /\ UNCHANGED <<built, engine, arrived, sentLog, rxDropped, pc, termCalls, held>>

execution_tx(value) ==
    /\ pc = "builder"
    /\ builder' = [builder EXCEPT !.execution_tx = Some(value)]
    /\ UNCHANGED <<built, engine, arrived, sentLog, rxDropped, pc, termCalls, held>>

instruments(value) ==
    /\ pc = "builder"
    /\ builder' = [builder EXCEPT !.instruments = Some(value)]
    /\ UNCHANGED <<built, engine, arrived, sentLog, rxDropped, pc, termCalls, held>>

\* As BuildResult, with the two middle error names exchanged.
BuildResultMisnamed(b) ==
    IF ~b.feed.some THEN [err |-> "feed", engine |-> NoEngine]
    ELSE IF ~b.strategy.some THEN [err |-> "execution_tx", engine |-> NoEngine]
    ELSE IF ~b.execution_tx.some THEN [err |-> "strategy", engine |-> NoEngine]
    ELSE IF ~b.instruments.some THEN [err |-> "instruments", engine |-> NoEngine]
    ELSE [err |-> "Ok",
          engine |-> Initialise(Trader(b.feed.value, b.strategy.value, b.execution_tx.value,
                                       InitialiseState(b.instruments.value)))]

\* As BuildResult, with the instrument universe unwrapped before the other fields.
BuildResultReordered(b) ==
    IF ~b.instruments.some THEN [err |-> "instruments", engine |-> NoEngine]
    ELSE IF ~b.feed.some THEN [err |-> "feed", engine |-> NoEngine]
    ELSE IF ~b.strategy.some THEN [err |-> "strategy", engine |-> NoEngine]
    ELSE IF ~b.execution_tx.some THEN [err |-> "execution_tx", engine |-> NoEngine]
    ELSE [err |-> "Ok",
          engine |-> Initialise(Trader(b.feed.value, b.strategy.value, b.execution_tx.value,
                                       InitialiseState(b.instruments.value)))]

\* As BuildResult, keeping only the first instrument of every exchange.
BuildResultTruncated(b) ==
    IF ~b.feed.some THEN [err |-> "feed", engine |-> NoEngine]
    ELSE IF ~b.strategy.some THEN [err |-> "strategy", engine |-> NoEngine]
    ELSE IF ~b.execution_tx.some THEN [err |-> "execution_tx", engine |-> NoEngine]
    ELSE IF ~b.instruments.some THEN [err |-> "instruments", engine |-> NoEngine]
    ELSE [err |-> "Ok",
          engine |-> Initialise(Trader(b.feed.value, b.strategy.value, b.execution_tx.value,
                                       InitialiseState([e \in DOMAIN b.instruments.value |->
                                                          <<Head(b.instruments.value[e])>>])))]

\* The value of build(): the `?` operators are evaluated in the order in which
\* the struct fields are written.
BuildResult(b) ==
    IF ~b.feed.some THEN [err |-> "feed", engine |-> NoEngine]
    ELSE IF ~b.strategy.some THEN [err |-> "strategy", engine |-> NoEngine]
    ELSE IF ~b.execution_tx.some THEN [err |-> "execution_tx", engine |-> NoEngine]
    ELSE IF ~b.instruments.some THEN [err |-> "instruments", engine |-> NoEngine]
    ELSE [err |-> "Ok",
          engine |-> Initialise(Trader(b.feed.value, b.strategy.value, b.execution_tx.value,
                                       InitialiseState(b.instruments.value)))]

build ==
    /\ pc = "builder"
    /\ built' = BuildResult(builder).err
    /\ engine' = BuildResult(builder).engine
    /\ pc' = IF BuildResult(builder).err = "Ok" THEN "idle" ELSE "build_err"
    /\ UNCHANGED <<builder, arrived, sentLog, rxDropped, termCalls, held>>

\* ---------------------------------------------------- Portfolio capability
Range(q) == {q[i] : i \in 1..Len(q)}

\* Initialiser: rejects a universe that lists an instrument twice.
InitialiserFails(u) ==
    \E e \in DOMAIN u : \E i, j \in 1..Len(u[e]) : i # j /\ u[e][i] = u[e][j]

InitialiserOutput(u) ==
    [instruments |-> UNION {Range(u[e]) : e \in DOMAIN u}, applied |-> <<>>]

\* No Portfolio has been built yet.
NoPortfolio == [instruments |-> {}, applied |-> <<>>]

\* MarketUpdater / AccountUpdater: the Portfolio records the events applied to it.
MarketUpdaterFails(market) == market.body = "Malformed"
MarketUpdaterSignals(market) == market.body = "Signal"
ApplyEvent(portfolio, event) == [portfolio EXCEPT !.applied = Append(@, event)]

\* ------------------------------------------------- the execution channel
\* As send, but the request is put in front of the queue.
sendFront(queue, request) == <<request>> \o queue

\* mpsc::UnboundedSender::send: the request is queued behind the ones sent
\* before it, without waiting.
send(queue, request) == Append(queue, request)

\* The requests made from the intents 1..k of the event at feed position idx.
Requests(idx, k) == [j \in 1..k |-> [event |-> idx, intent |-> j]]

RECURSIVE SendAll(_, _)
SendAll(queue, requests) ==
    IF requests = <<>> THEN queue
    ELSE SendAll(send(queue, Head(requests)), Tail(requests))

\* ------------------------------------------------ the Trader transitions
\* Initialise -> Consume: build the Portfolio from the instrument universe;
\* a failed initialisation is fatal and ends the session.
init(trader) ==
    IF InitialiserFails(trader.state.instruments)
    THEN Terminate(WithState(trader, TerminateState))
    ELSE Consume(WithState(trader, PortfolioState(InitialiserOutput(trader.state.instruments))))

\* Consume: pull exactly one item and route it by tag; a closed feed is an
\* implicit shutdown.
next_event(trader) ==
    IF trader.feed.taken = Len(trader.feed.items)
    THEN Terminate(WithState(trader, TerminateState))
    ELSE LET idx == trader.feed.taken + 1
             item == trader.feed.items[idx]
             event == [idx |-> idx, tag |-> item.tag, body |-> item.body]
             pulled == [trader EXCEPT !.feed.taken = idx]
         IN  CASE item.tag = "Market" -> UpdateFromMarket(pulled, event)
               [] item.tag = "Account" -> UpdateFromAccount(pulled, event)
               [] item.tag = "Command" -> ExecuteCommand(pulled, event)

\* UpdateFromMarket: a malformed event is reported and leaves the Portfolio as
\* it was; a signal leads to GenerateOrder<Algorithmic>, a phase payload that
\* is not parameterised by the Portfolio.
update_market(trader, market) ==
    IF MarketUpdaterFails(market) THEN Consume(trader)
    ELSE IF MarketUpdaterSignals(market)
         THEN GenerateOrder(WithState(trader, GenerateOrderState("Algorithmic")))
         ELSE Consume(WithState(trader, PortfolioState(ApplyEvent(trader.state.portfolio, market))))

\* UpdateFromAccount -> Consume with the reconciled Portfolio.
update_account(trader, account) ==
    Consume(WithState(trader, PortfolioState(ApplyEvent(trader.state.portfolio, account))))

\* ExecuteCommand with k order intents to send (k matters to the position-close
\* command only): the Engine returned and the requests sent.
\* A send on a channel whose consumer is gone is fatal.
execute_manual_command(trader, command, k, dropped) ==
    CASE command.body = "Shutdown" ->
            [engine |-> Terminate(WithState(trader, TerminateState)), requests |-> <<>>]
      [] command.body = "ManualOrder" ->
            [engine |-> GenerateOrderManual(WithState(trader, GenerateOrderState("Manual")), <<>>),
             requests |-> <<>>]
      [] OTHER ->
            IF k > 0 /\ dropped
            THEN [engine |-> Terminate(WithState(trader, TerminateState)), requests |-> <<>>]
            ELSE [engine |-> Consume(trader), requests |-> Requests(command.idx, k)]

\* ------------------------------------------------------- Engine::next
NextInitialise ==
    /\ engine.tag = "Initialise"
    /\ engine' = init(engine.trader)
    /\ UNCHANGED <<arrived, sentLog>>

\* As NextConsume, but the arm re-wraps the trader as the Terminate arm does,
\* without calling next_event.
NextConsumeRewraps ==
    /\ engine.tag = "Consume"
    /\ arrived
    /\ engine' = Consume(engine.trader)
    /\ UNCHANGED <<arrived, sentLog>>

\* As NextConsume, but the arm drains a second item when one is waiting behind
\* the first, and routes the later one.
NextConsumeBatches ==
    /\ engine.tag = "Consume"
    /\ arrived
    /\ engine' = IF engine.trader.feed.taken + 2 <= Len(engine.trader.feed.items)
                 THEN next_event([engine.trader EXCEPT !.feed.taken = @ + 1])
                 ELSE next_event(engine.trader)
    /\ arrived' = (engine.trader.feed.taken = Len(engine.trader.feed.items))
    /\ UNCHANGED sentLog

\* next_event blocks until the feed yields an item or signals closure.
NextConsume ==
    /\ engine.tag = "Consume"
    /\ arrived
    /\ engine' = next_event(engine.trader)
    /\ arrived' = (engine.trader.feed.taken = Len(engine.trader.feed.items))
    /\ UNCHANGED sentLog

\* As NextUpdateFromMarket, but the arm unwraps the result of the market
\* update: a rejected event panics.
NextUpdateFromMarketUnwraps ==
    /\ engine.tag = "UpdateFromMarket"
    /\ engine' = IF MarketUpdaterFails(engine.event) THEN todo
                 ELSE update_market(engine.trader, engine.event)
    /\ UNCHANGED <<arrived, sentLog>>

NextUpdateFromMarket ==
    /\ engine.tag = "UpdateFromMarket"
    /\ engine' = update_market(engine.trader, engine.event)
    /\ UNCHANGED <<arrived, sentLog>>

NextGenerateOrder ==
    /\ engine.tag = "GenerateOrder"
    /\ engine' = todo
    /\ UNCHANGED <<arrived, sentLog>>

NextGenerateOrderManual ==
    /\ engine.tag = "GenerateOrderManual"
    /\ engine' = todo
    /\ UNCHANGED <<arrived, sentLog>>

\* As NextUpdateFromAccount, but the account event is applied a second time to
\* the trader the first update returned.
NextUpdateFromAccountTwice ==
    /\ engine.tag = "UpdateFromAccount"
    /\ engine' = update_account(update_account(engine.trader, engine.event).trader, engine.event)
    /\ UNCHANGED <<arrived, sentLog>>

NextUpdateFromAccount ==
    /\ engine.tag = "UpdateFromAccount"
    /\ engine' = update_account(engine.trader, engine.event)
    /\ UNCHANGED <<arrived, sentLog>>

NextExecuteCommand ==
    /\ engine.tag = "ExecuteCommand"
    /\ \E k \in 0..MaxIntents :
          /\ (engine.event.body \in {"Shutdown", "ManualOrder"} => k = 0)
          /\ LET r == execute_manual_command(engine.trader, engine.event, k, rxDropped)
             IN  /\ engine' = r.engine
                 /\ sentLog' = SendAll(sentLog, r.requests)
    /\ UNCHANGED arrived

\* As NextTerminate, but the arm polls the feed once more before returning.
NextTerminatePolls ==
    /\ engine.tag = "Terminate"
    /\ engine' = Terminate([engine.trader EXCEPT !.feed.taken = @ + 1])
    /\ UNCHANGED <<arrived, sentLog>>

\* As NextTerminate, but the arm starts the session over.
NextTerminateRestarts ==
    /\ engine.tag = "Terminate"
    /\ engine' = Initialise(WithState(engine.trader, InitialiseState(builder.instruments.value)))
    /\ UNCHANGED <<arrived, sentLog>>

\* As NextTerminate, but the arm sends a closing request before returning.
NextTerminateSends ==
    /\ engine.tag = "Terminate"
    /\ engine' = Terminate(engine.trader)
    /\ sentLog' = send(sentLog, [event |-> engine.trader.feed.taken, intent |-> 1])
    /\ UNCHANGED arrived

NextTerminate ==
    /\ engine.tag = "Terminate"
    /\ engine' = Terminate(engine.trader)
    /\ UNCHANGED <<arrived, sentLog>>

next ==
    \/ NextInitialise
    \/ NextConsume
    \/ NextUpdateFromMarket
    \/ NextGenerateOrder
    \/ NextGenerateOrderManual
    \/ NextUpdateFromAccount
    \/ NextExecuteCommand
    \/ NextTerminate

\* A next() call on a Terminate-phase Engine is counted.
CountTerminate ==
    termCalls' = IF engine.tag = "Terminate" THEN termCalls + 1 ELSE termCalls

\* The Portfolio of the Engine returned, when its phase payload holds one.
HoldPortfolio ==
    held' = IF engine'.tag \in {"Consume", "UpdateFromMarket", "UpdateFromAccount", "ExecuteCommand"}
            THEN engine'.trader.state.portfolio
            ELSE held

\* The caller invokes next() itself and keeps the Engine it returns.
CallNext ==
    /\ pc = "idle"
    /\ engine.tag = "Terminate" => termCalls < MaxTermCalls
    /\ next
    /\ CountTerminate
    /\ pc' = IF engine'.tag = "Panicked" THEN "panicked" ELSE "idle"
    /\ HoldPortfolio
    /\ UNCHANGED <<builder, built, rxDropped>>

\* ------------------------------------------------------- Engine::run
\* As run, but the loop tests for Terminate before its first next().
runTestsFirst ==
    /\ pc = "idle"
    /\ pc' = "run_check"
    /\ UNCHANGED <<builder, built, engine, arrived, sentLog, rxDropped, termCalls, held>>

run ==
    /\ pc = "idle"
    /\ pc' = "run_next"
    /\ UNCHANGED <<builder, built, engine, arrived, sentLog, rxDropped, termCalls, held>>

\* self = self.next();
RunNext ==
    /\ pc = "run_next"
    /\ next
    /\ CountTerminate
    /\ pc' = IF engine'.tag = "Panicked" THEN "panicked" ELSE "run_check"
    /\ HoldPortfolio
    /\ UNCHANGED <<builder, built, rxDropped>>

\* if let Self::Terminate(_) = self { break 'trading }
RunCheck ==
    /\ pc = "run_check"
    /\ pc' = IF engine.tag = "Terminate" THEN "returned" ELSE "run_next"
    /\ UNCHANGED <<builder, built, engine, arrived, sentLog, rxDropped, termCalls, held>>

\* -------------------------------------------------------- environment
Live == pc \in {"idle", "run_next", "run_check"}

\* The producers of the feed make its next item available.
FeedYield ==
    /\ Live
    /\ ~arrived
    /\ engine.trader.feed.taken < Len(engine.trader.feed.items)
    /\ arrived' = TRUE
    /\ UNCHANGED <<builder, built, engine, sentLog, rxDropped, pc, termCalls, held>>

\* The producers of the feed are gone: the feed signals closure.
FeedClose ==
    /\ Live
    /\ ~arrived
    /\ engine.trader.feed.taken = Len(engine.trader.feed.items)
    /\ arrived' = TRUE
    /\ UNCHANGED <<builder, built, engine, sentLog, rxDropped, pc, termCalls, held>>

\* The execution subsystem drops the receiving end of the channel.
DropExecutionRx ==
    /\ Live
    /\ ~rxDropped
    /\ rxDropped' = TRUE
    /\ UNCHANGED <<builder, built, engine, arrived, sentLog, pc, termCalls, held>>

\* ------------------------------------------------------ specification
Init ==
    /\ builder = new
    /\ built = "pending"
    /\ engine = NoEngine
    /\ arrived = FALSE
    /\ sentLog = <<>>
    /\ rxDropped = FALSE
    /\ pc = "builder"
    /\ termCalls = 0
    /\ held = NoPortfolio

\* The steps of the program and its environment, with the instrument universe
\* drawn from U.
NextOver(U) ==
    \/ \E value \in EventFeeds : feed(value)
    \/ \E value \in Strategies : strategy(value)
    \/ \E value \in ExecutionTxs : execution_tx(value)
    \/ \E value \in U : instruments(value)
    \/ build
    \/ CallNext
    \/ run
    \/ RunNext
    \/ RunCheck
    \/ FeedYield
    \/ FeedClose
    \/ DropExecutionRx

Next == NextOver(Universes)

Spec == Init /\ [][Next]_vars

\* The sessions whose Portfolio initialisation succeeds.
WellFormedUniverses == {u \in Universes : ~InitialiserFails(u)}
SessionSpec == Init /\ [][NextOver(WellFormedUniverses)]_vars

\* The run loop keeps stepping, the feed's producers deliver what they have and
\* then close it.
FairSpec ==
    Spec /\ WF_vars(RunNext) /\ WF_vars(RunCheck) /\ WF_vars(FeedYield) /\ WF_vars(FeedClose)

\* ============================================================== claims
\* A step in which next() is called, by the caller or by run().
NextCall == CallNext \/ RunNext

\* Section 4's state table.
LegalSuccessors(tag) ==
    CASE tag = "Initialise" -> {"Consume"}
      [] tag = "Consume" -> {"UpdateFromMarket", "UpdateFromAccount", "ExecuteCommand", "Terminate"}
      [] tag = "UpdateFromMarket" -> {"GenerateOrder", "Consume"}
      [] tag = "GenerateOrder" -> {"Consume"}
      [] tag = "GenerateOrderManual" -> {"Consume"}
      [] tag = "UpdateFromAccount" -> {"Consume"}
      [] tag = "ExecuteCommand" -> {"GenerateOrderManual", "Consume", "Terminate"}
      [] tag = "Terminate" -> {"Terminate"}
      [] OTHER -> {}

\* C1: every next() call returns an Engine whose phase is a legal successor,
\* by the state table, of the phase it was called on.
C1_LegalSuccessor ==
    [][NextCall => engine'.tag \in LegalSuccessors(engine.tag)]_vars

\* C2: next() on a Terminate-phase Engine returns the same Terminate-phase
\* Engine (same feed with nothing pulled, same strategy, sender and state) and
\* sends nothing, however often it is repeated.
C2_TerminateIdempotent ==
    [][NextCall /\ engine.tag = "Terminate"
          => engine' = engine /\ sentLog' = sentLog /\ arrived' = arrived]_vars

\* next() has been called on a Terminate-phase Engine more than once.
C2_Witness == engine.tag = "Terminate" /\ termCalls >= 2

\* The required builder fields, in the order build() unwraps them.
FieldOrder == <<"feed", "strategy", "execution_tx", "instruments">>
Unset(b) == {f \in Range(FieldOrder) : ~b[f].some}
FirstUnset(b) ==
    FieldOrder[CHOOSE i \in 1..Len(FieldOrder) :
                  /\ FieldOrder[i] \in Unset(b)
                  /\ \A j \in 1..(i - 1) : FieldOrder[j] \notin Unset(b)]

\* C3: build() with exactly one required field unset returns BuilderIncomplete
\* naming that field and no Engine; with all four set it returns an
\* Initialise-phase Engine.
C3_BuilderCompleteness ==
    [][build =>
          /\ \A f \in Range(FieldOrder) :
                Unset(builder) = {f} => built' = f /\ engine' = NoEngine
          /\ Unset(builder) = {} => built' = "Ok" /\ engine'.tag = "Initialise"]_vars

\* build() was called with only the execution sender unset.
C3_Witness == pc = "build_err" /\ Unset(builder) = {"execution_tx"}

\* C4: whenever some field is unset, build() names the first unset field in the
\* order feed, strategy, execution_tx, instruments, whichever later fields are
\* unset too and in whatever order the setters ran.
C4_FirstMissingField ==
    [][build /\ Unset(builder) # {} =>
          built' = FirstUnset(builder) /\ engine' = NoEngine]_vars

\* build() was called with the execution sender set and two fields unset.
C4_Witness ==
    /\ pc = "build_err"
    /\ Unset(builder) = {"strategy", "instruments"}
    /\ built = "strategy"

\* C5: a successful build() wraps exactly the feed (nothing pulled), strategy
\* and execution sender it was given, holds the instrument universe
\* unmodified, and sends nothing.
C5_BuildCarriesInputs ==
    [][build /\ Unset(builder) = {} =>
          /\ engine'.tag = "Initialise"
          /\ engine'.trader.feed = builder.feed.value
          /\ engine'.trader.strategy = builder.strategy.value
          /\ engine'.trader.execution_tx = builder.execution_tx.value
          /\ engine'.trader.state = InitialiseState(builder.instruments.value)
          /\ sentLog' = sentLog
          /\ arrived' = arrived]_vars

\* build() succeeded on a feed that has items to yield and a universe of two
\* exchanges.
C5_Witness ==
    /\ pc = "idle"
    /\ engine.tag = "Initialise"
    /\ Len(engine.trader.feed.items) = MaxFeedLen
    /\ engine.trader.state.instruments = [A |-> <<"X", "Y">>, B |-> <<"Z">>]

\* C6: run() on a feed that closes (or yields a shutdown command) eventually
\* returns.
C6_RunReturns == (pc = "run_next") ~> (pc = "returned")

\* The feed has yielded all its items and signalled closure.
FeedClosed ==
    /\ engine.tag \notin {"NoEngine", "Panicked"}
    /\ arrived
    /\ engine.trader.feed.taken = Len(engine.trader.feed.items)

\* C7: next() on a Consume-phase Engine whose feed is exhausted and closed
\* returns a Terminate-phase Engine, and that call does not wait.
C7_ClosedFeedTerminates ==
    /\ [][NextCall /\ engine.tag = "Consume" /\ FeedClosed => engine'.tag = "Terminate"]_vars
    /\ [](pc = "run_next" /\ engine.tag = "Consume" /\ FeedClosed => ENABLED RunNext)

\* The feed yielded its items, none of them a shutdown command, and closed; the
\* execution channel is alive and the session has reached Terminate.
C7_Witness ==
    /\ engine.tag = "Terminate"
    /\ held # NoPortfolio
    /\ ~rxDropped
    /\ Len(engine.trader.feed.items) > 0
    /\ engine.trader.feed.taken = Len(engine.trader.feed.items)
    /\ \A i \in 1..Len(engine.trader.feed.items) : engine.trader.feed.items[i].body # "Shutdown"

\* C8: next() on a GenerateOrder phase (Algorithmic or Manual) returns a
\* Consume-phase Engine holding the Portfolio that was held when GenerateOrder
\* was entered.
C8_GenerateOrderKeepsPortfolio ==
    [][NextCall /\ engine.tag \in {"GenerateOrder", "GenerateOrderManual"}
          => engine'.tag = "Consume" /\ engine'.trader.state = PortfolioState(held)]_vars

\* C9: once the consumer of the execution channel is dropped, the step that
\* sends the order intents (GenerateOrder, Algorithmic or Manual) ends in the
\* Terminate phase.
C9_DeadChannelTerminates ==
    [][NextCall /\ rxDropped /\ engine.tag \in {"GenerateOrder", "GenerateOrderManual"}
          => engine'.tag = "Terminate"]_vars

C11_MalformedMarketRecoverable ==
    /\ [][NextCall /\ engine.tag = "UpdateFromMarket" /\ MarketUpdaterFails(engine.event)
             => /\ engine'.tag = "Consume"
                /\ engine'.trader.state = engine.trader.state
                /\ held' = held
                /\ pc' \in {"idle", "run_check"}]_vars
    /\ [][pc = "run_check" /\ engine.tag = "Consume" => pc' \in {"run_check", "run_next"}]_vars
    /\ [](pc = "run_next" /\ engine.tag = "Consume" /\ arrived => ENABLED RunNext)

\* run() has pulled the item that follows a malformed market event.
C11_Witness ==
    /\ pc \in {"run_next", "run_check"}
    /\ engine.tag \in {"UpdateFromMarket", "UpdateFromAccount", "ExecuteCommand"}
    /\ engine.event.idx = 2
    /\ MarketUpdaterFails(engine.trader.feed.items[1])

\* The Portfolio initialisation of this session has failed.
InitialisationFailed ==
    /\ built = "Ok"
    /\ engine.tag # "Initialise"
    /\ InitialiserFails(builder.instruments.value)

\* C12: when the Portfolio initialisation fails, the session ends with no item
\* pulled from the feed and no ExecutionRequest sent, and the failure reaches
\* the caller of run(): run() returns no value, so it does not return normally
\* from such a session.
C12_InitialisationFailureSurfaced ==
    InitialisationFailed =>
        /\ engine.tag \in {"Terminate", "Panicked"}
        /\ engine.tag = "Terminate" => engine.trader.feed.taken = 0
        /\ sentLog = <<>>
        /\ pc # "returned"

\* An Engine value that wraps a Trader.
HasTrader(e) == e.tag \notin {"NoEngine", "Panicked"}

\* C13: a next() call on a Consume-phase Engine whose feed has an item removes
\* exactly that one item, the next in feed order; no other step removes any,
\* and the feed's contents are never reordered.
C13_OneItemPerConsume ==
    [][HasTrader(engine) =>
          /\ NextCall /\ engine.tag = "Consume" => HasTrader(engine')
          /\ HasTrader(engine') =>
                /\ engine'.trader.feed.items = engine.trader.feed.items
                /\ IF NextCall /\ engine.tag = "Consume"
                          /\ engine.trader.feed.taken < Len(engine.trader.feed.items)
                   THEN /\ engine'.trader.feed.taken = engine.trader.feed.taken + 1
                        /\ engine'.event.idx = engine.trader.feed.taken + 1
                   ELSE engine'.trader.feed.taken = engine.trader.feed.taken]_vars

\* Two items have been pulled, one at a time, and the engine is back in Consume.
C13_Witness ==
    /\ engine.tag = "Consume"
    /\ engine.trader.feed.taken = 2

\* The i-th item of a feed, as the event next_event carries on.
EventAt(f, i) == [idx |-> i, tag |-> f.items[i].tag, body |-> f.items[i].body]
EventsBefore(f, n) == [i \in 1..n |-> EventAt(f, i)]
\* The events a Portfolio update accepts.
Accepted(event) == event.tag # "Command" /\ ~MarketUpdaterFails(event)
RouteOf(tag) ==
    CASE tag = "Market" -> "UpdateFromMarket"
      [] tag = "Account" -> "UpdateFromAccount"
      [] tag = "Command" -> "ExecuteCommand"

\* C14: every item pulled is routed by its tag and applied exactly once. In an
\* Update or ExecuteCommand phase the event carried is the item the preceding
\* Consume step pulled; the Portfolio has had applied to it, once each and in
\* feed order, exactly the accepted events pulled before; and every request
\* sent stems from a command that was pulled.
C14_RoutedAndAppliedOnce ==
    /\ engine.tag = "Consume" =>
          engine.trader.state.portfolio.applied
              = SelectSeq(EventsBefore(engine.trader.feed, engine.trader.feed.taken), Accepted)
    /\ engine.tag \in {"UpdateFromMarket", "UpdateFromAccount", "ExecuteCommand"} =>
          /\ engine.trader.feed.taken >= 1
          /\ engine.event = EventAt(engine.trader.feed, engine.trader.feed.taken)
          /\ engine.tag = RouteOf(engine.event.tag)
          /\ engine.trader.state.portfolio.applied
                = SelectSeq(EventsBefore(engine.trader.feed, engine.trader.feed.taken - 1), Accepted)
    /\ HasTrader(engine) =>
          \A i \in 1..Len(sentLog) :
              /\ sentLog[i].event <= engine.trader.feed.taken
              /\ engine.trader.feed.items[sentLog[i].event].tag = "Command"

\* A market event and an account event have both been applied.
C14_Witness ==
    /\ engine.tag = "Consume"
    /\ Len(engine.trader.state.portfolio.applied) = 2
    /\ engine.trader.state.portfolio.applied[1].tag # engine.trader.state.portfolio.applied[2].tag

\* C15: in every phase the Trader holds the feed, the strategy and the
\* execution sender that were given to the builder.
C15_TraderIdentityKept ==
    HasTrader(engine) =>
        /\ engine.trader.feed.items = builder.feed.value.items
        /\ engine.trader.strategy = builder.strategy.value
        /\ engine.trader.execution_tx = builder.execution_tx.value

\* Two items have been pulled and handled by a Trader given the second
\* strategy and the second sender.
C15_Witness ==
    /\ engine.tag = "Consume"
    /\ engine.trader.feed.taken = 2
    /\ engine.trader.strategy = "strategy_b"
    /\ engine.trader.execution_tx = "tx_b"
    /\ Len(engine.trader.state.portfolio.applied) >= 1

\* C16: build() yields an Initialise-phase Engine; once next() has left
\* Initialise no step brings an Initialise-phase Engine back, and a Portfolio
\* comes into existence only in the step out of Initialise.
C16_InitialiseOnce ==
    /\ [][build /\ built' = "Ok" => engine'.tag = "Initialise"]_vars
    /\ [][engine.tag \notin {"NoEngine", "Initialise"} => engine'.tag # "Initialise"]_vars
    /\ [][held = NoPortfolio /\ held' # NoPortfolio => NextCall /\ engine.tag = "Initialise"]_vars

\* The session left Initialise with a Portfolio, has terminated, and next()
\* has been called again since.
C16_Witness ==
    /\ engine.tag = "Terminate"
    /\ held # NoPortfolio
    /\ termCalls = 1
    /\ pc = "idle"

\* C17: after Initialise, the Portfolio changes only in a step out of
\* UpdateFromMarket or UpdateFromAccount: a Consume, GenerateOrder,
\* ExecuteCommand or Terminate step returns an Engine, and the Portfolio held
\* after it is the Portfolio held before it.
C17_PortfolioChangesOnlyInUpdates ==
    [][NextCall /\ engine.tag \in {"Consume", "GenerateOrder", "GenerateOrderManual",
                                   "ExecuteCommand", "Terminate"}
          => /\ HasTrader(engine')
             /\ held' = held
             /\ engine'.tag \in {"Consume", "UpdateFromMarket", "UpdateFromAccount", "ExecuteCommand"}
                   => engine'.trader.state.portfolio = held]_vars

\* The item pulled last is a shutdown command.
ShutdownPulled ==
    /\ HasTrader(engine)
    /\ engine.trader.feed.taken >= 1
    /\ engine.trader.feed.items[engine.trader.feed.taken].body = "Shutdown"

\* A shutdown command goes from ExecuteCommand to Terminate, and once it has
\* been pulled nothing more is pulled or sent.
ShutdownIsFinal ==
    /\ [][NextCall /\ engine.tag = "ExecuteCommand" /\ engine.event.body = "Shutdown"
             => engine'.tag = "Terminate"]_vars
    /\ [][ShutdownPulled =>
             /\ HasTrader(engine')
             /\ engine'.trader.feed.taken = engine.trader.feed.taken
             /\ sentLog' = sentLog]_vars

C19_OnlyConsumeWaits ==
    /\ [](pc = "run_next" /\ (engine.tag # "Consume" \/ arrived) => ENABLED RunNext)
    /\ [](pc = "run_next" /\ engine.tag = "Consume" /\ ~arrived => ~ENABLED RunNext)
    /\ [](pc = "run_next" /\ engine.tag = "ExecuteCommand"
             /\ engine.event.body = "ClosePosition" /\ ~rxDropped
          => ENABLED (RunNext /\ Len(sentLog') = Len(sentLog) + MaxIntents))
    /\ [][NextCall /\ engine.tag # "Consume" => HasTrader(engine')]_vars

\* C20: run() goes to a next() call before any test; the test follows each
\* next() and nothing else, and leaves the Engine as it is; run() returns from
\* the test exactly when the Engine is in Terminate, and loops to another
\* next() otherwise; started on a Terminate-phase Engine it makes one next()
\* call, and after it has returned there is no further step.
C20_RunLoop ==
    /\ [][pc = "idle" /\ pc' \notin {"idle", "panicked"}
             => pc' = "run_next" /\ UNCHANGED <<engine, termCalls, sentLog>>]_vars
    /\ [][pc # "run_check" /\ pc' = "run_check" => pc = "run_next" /\ NextCall]_vars
    /\ [][pc = "run_next" /\ pc' # "run_next" => NextCall /\ pc' \in {"run_check", "panicked"}]_vars
    /\ [][pc = "run_check"
             => /\ UNCHANGED <<engine, termCalls, sentLog>>
                /\ pc' \in {"run_check", IF engine.tag = "Terminate" THEN "returned" ELSE "run_next"}]_vars
    /\ [](pc = "run_check" => ENABLED RunCheck)
    /\ [][pc = "run_next" /\ engine.tag = "Terminate" /\ NextCall
             => engine'.tag = "Terminate" /\ termCalls' = termCalls + 1 /\ pc' = "run_check"]_vars
    /\ [](pc = "returned" => engine.tag = "Terminate" /\ ~ENABLED Next)

\* run() was started on an Engine already in Terminate, with the whole feed
\* consumed before: it made its one next() call and returned.
C20_Witness ==
    /\ pc = "returned"
    /\ termCalls = 1
    /\ engine.trader.feed.taken = MaxFeedLen

====
